---- MODULE Spec2Model ----
(***************************************************************************)
(* Model of the WebSocket API infrastructure composition                   *)
(*   bin/app.ts                   (the app entry point)                     *)
(*   lib/websocket-api-stack.ts   (WebSocketApiStack.constructor)           *)
(* and of the artefacts the composition generates: the bootstrap script    *)
(* run on the host, the target group's health-check policy and its         *)
(* stickiness policy.                                                       *)
(***************************************************************************)
EXTENDS Integers, Sequences, FiniteSets, TLC

VARIABLES
    (* ---- composition (bin/app.ts + WebSocketApiStack.constructor) ---- *)
    customProps,   \* the optional stack props app.ts passes (createVpc, vpcId, instanceType)
    proc,          \* inputs of the running evaluation: context and process.env
    evalNo,        \* which evaluation of the app is running
    pc,            \* position inside the evaluation
    stack,         \* the resource graph under construction: construct id -> definition
    synth,         \* the graphs synthesised so far: <<[envName, proc, stack], ...>>
    (* ---- bootstrap script execution on the host ---- *)
    bootEnv,       \* the envName the script was rendered for
    ip,            \* index of the next command of the script
    status,        \* "running" | "aborted" | "done"
    errexit,       \* whether `set -e` is in effect
    fd1,           \* where stdout goes: "console" | "pipe"
    fd2,           \* where stderr goes: "console" | "pipe"
    pipe,          \* output written to the tee process and not yet read by it
    log,           \* content of /var/log/user-data.log
    ran,           \* the commands that have run, in order, with their exit status
    host,          \* the host's state the script changes
    (* ---- the load balancer's health checker, for one backend ---- *)
    hcClock,       \* seconds since the backend was registered
    hcSent,        \* when the probe in flight was sent, or -1
    hcState,       \* "initial" | "healthy" | "unhealthy"; in rotation iff "healthy"
    hcSucc,        \* consecutive successful probes
    hcFail,        \* consecutive failed probes
    hcHistory,     \* the finished probes: <<[sent, done, ok, state], ...>>
    (* ---- the load balancer's routing of client connections ---- *)
    stClock,       \* seconds
    stRotation,    \* the backends in rotation
    stCookie,      \* client -> the affinity cookie it holds
    stLast,        \* client -> its latest connection
    stPrev         \* client -> its connection before the latest

compVars == <<customProps, proc, evalNo, pc, stack, synth>>
bootVars == <<bootEnv, ip, status, errexit, fd1, fd2, pipe, log, ran, host>>
healthVars == <<hcClock, hcSent, hcState, hcSucc, hcFail, hcHistory>>
stickyVars == <<stClock, stRotation, stCookie, stLast, stPrev>>
vars == <<compVars, bootVars, healthVars, stickyVars>>
exceptComp == <<bootVars, healthVars, stickyVars>>
exceptBoot == <<compVars, healthVars, stickyVars>>
exceptHealth == <<compVars, bootVars, stickyVars>>
exceptSticky == <<compVars, bootVars, healthVars>>

(***************************************************************************)
(* JavaScript values.  An absent value is Undefined; `||` falls through on  *)
(* every falsy value, which for the strings used here is undefined and "". *)
(***************************************************************************)
Undefined == "undefined"

Truthy(v) == v \notin {Undefined, ""}

OrElse(v, d) == IF Truthy(v) THEN v ELSE d

(***************************************************************************)
(* The inputs an evaluation can be given.                                   *)
(***************************************************************************)
ContextEnvironments == {Undefined, "dev", "prod", "staging"}
DefaultAccounts     == {Undefined, "123456789012"}
DefaultRegions      == {Undefined, "us-east-1", "eu-west-1"}
CreateVpcValues     == {Undefined, "true", "false"}
VpcIds              == {Undefined, "", "vpc-0abc"}
InstanceTypes       == {Undefined, "t3.medium"}

Procs ==
    [environment : ContextEnvironments,
     CDK_DEFAULT_ACCOUNT : DefaultAccounts,
     CDK_DEFAULT_REGION : DefaultRegions]

CustomProps ==
    [createVpc : CreateVpcValues, vpcId : VpcIds, instanceType : InstanceTypes]

\* The app is evaluated twice (cdk synth run twice), each run with its own inputs.
Evaluations == {1, 2}

(***************************************************************************)
(* bin/app.ts                                                               *)
(***************************************************************************)
AppEnvName(p) == OrElse(p.environment, "dev")

AppAccount(p) == p.CDK_DEFAULT_ACCOUNT

AppRegion(p) == OrElse(p.CDK_DEFAULT_REGION, "us-east-1")

AppStackProps(p, custom) ==
    [id              |-> "WebSocketApiStack-" \o AppEnvName(p),
     stackName       |-> "websocket-api-" \o AppEnvName(p),
     description     |-> "WebSocket API infrastructure for " \o AppEnvName(p) \o " environment",
     env             |-> [account |-> AppAccount(p), region |-> AppRegion(p)],
     environmentName |-> AppEnvName(p),
     instanceType    |-> custom.instanceType,
     createVpc       |-> custom.createVpc,
     vpcId           |-> custom.vpcId,
     tags            |-> [Environment |-> AppEnvName(p),
                          Project |-> "WebSocketApi",
                          ManagedBy |-> "CDK"]]

\* The props of the evaluation that is running.
props == AppStackProps(proc, customProps)

(***************************************************************************)
(* WebSocketApiStack.constructor: its locals                                *)
(***************************************************************************)
EnvNameOf(pr) == OrElse(pr.environmentName, "dev")

InstanceTypeOf(pr) == OrElse(pr.instanceType, "t3.small")

\* this.account: the account the stack is bound to, or the deploy-time token
\* of an environment-agnostic stack.
StackAccount(pr) ==
    IF pr.env.account = Undefined THEN "${AWS::AccountId}" ELSE pr.env.account

\* A slip that takes any vpcId as the request to use an existing VPC.
UseExistingVpcIgnoringFlag(pr) == Truthy(pr.vpcId)

UseExistingVpc(pr) == pr.createVpc = "false" /\ Truthy(pr.vpcId)

VpcRef(pr) == IF UseExistingVpc(pr) THEN "ExistingVPC" ELSE "WebSocketVPC"

(***************************************************************************)
(* The resources the constructor declares                                   *)
(***************************************************************************)
StackDefinition(pr) ==
    [type        |-> "Stack",
     id          |-> pr.id,
     stackName   |-> pr.stackName,
     description |-> pr.description,
     env         |-> pr.env,
     tags        |-> pr.tags]

ExistingVpc(pr) ==
    [type |-> "Vpc.fromLookup", vpcId |-> pr.vpcId]

NewVpc(pr) ==
    [type        |-> "Vpc",
     vpcName     |-> "websocket-api-vpc-" \o EnvNameOf(pr),
     maxAzs      |-> 2,
     natGateways |-> 1,
     subnetConfiguration |->
        << [cidrMask |-> 24, name |-> "Public",  subnetType |-> "PUBLIC"],
           [cidrMask |-> 24, name |-> "Private", subnetType |-> "PRIVATE_WITH_EGRESS"] >>]

\* A slip that makes the bucket name unique per run.
DeploymentBucketUniquePerRun(pr) ==
    [type              |-> "Bucket",
     bucketName        |-> "websocket-api-deployments-" \o EnvNameOf(pr)
                              \o "-" \o StackAccount(pr) \o "-" \o ToString(evalNo),
     removalPolicy     |-> "RETAIN",
     encryption        |-> "S3_MANAGED",
     blockPublicAccess |-> "BLOCK_ALL",
     versioned         |-> FALSE,
     lifecycleRules    |-> << [id |-> "DeleteOldDeployments",
                               enabled |-> TRUE,
                               expirationDays |-> 30] >>]

DeploymentBucket(pr) ==
    [type              |-> "Bucket",
     bucketName        |-> "websocket-api-deployments-" \o EnvNameOf(pr)
                              \o "-" \o StackAccount(pr),
     removalPolicy     |-> "RETAIN",
     encryption        |-> "S3_MANAGED",
     blockPublicAccess |-> "BLOCK_ALL",
     versioned         |-> FALSE,
     lifecycleRules    |-> << [id |-> "DeleteOldDeployments",
                               enabled |-> TRUE,
                               expirationDays |-> 30] >>]

EC2RoleManagedPolicies ==
    {"AmazonSSMManagedInstanceCore", "CloudWatchAgentServerPolicy"}

EC2Role(pr) ==
    [type            |-> "Role",
     roleName        |-> "websocket-api-ec2-role-" \o EnvNameOf(pr),
     assumedBy       |-> "ec2.amazonaws.com",
     managedPolicies |-> EC2RoleManagedPolicies,
     grants          |-> {},
     description     |-> "IAM role for WebSocket API EC2 instance"]

\* deploymentBucket.grantRead(ec2Role)
GrantRead(bucketId) ==
    [access |-> "read", resource |-> bucketId]

AnyIpv4 == [kind |-> "cidr", id |-> "0.0.0.0/0"]

SecurityGroupPeer(sgId) == [kind |-> "securityGroup", id |-> sgId]

IngressRule(peer, port, description) ==
    [peer |-> peer, protocol |-> "tcp", port |-> port, description |-> description]

\* A slip that leaves out the HTTPS rule.
AlbIngressRulesHttpOnly ==
    { IngressRule(AnyIpv4, 80,  "Allow HTTP traffic from anywhere") }

AlbIngressRules ==
    { IngressRule(AnyIpv4, 80,  "Allow HTTP traffic from anywhere"),
      IngressRule(AnyIpv4, 443, "Allow HTTPS traffic from anywhere") }

AlbSecurityGroup(pr) ==
    [type              |-> "SecurityGroup",
     vpc               |-> VpcRef(pr),
     securityGroupName |-> "websocket-api-alb-sg-" \o EnvNameOf(pr),
     description       |-> "Security group for WebSocket API ALB",
     allowAllOutbound  |-> TRUE,
     ingress           |-> AlbIngressRules]

\* A slip that opens the commented-out SSH rule (lines 157-162).
Ec2IngressRulesWithSsh ==
    { IngressRule(SecurityGroupPeer("ALBSecurityGroup"), 80, "Allow traffic from ALB"),
      IngressRule(SecurityGroupPeer("ALBSecurityGroup"), 5000,
                  "Allow traffic from ALB to app port"),
      IngressRule(AnyIpv4, 22, "Allow SSH access") }

Ec2IngressRules ==
    { IngressRule(SecurityGroupPeer("ALBSecurityGroup"), 80, "Allow traffic from ALB"),
      IngressRule(SecurityGroupPeer("ALBSecurityGroup"), 5000,
                  "Allow traffic from ALB to app port") }

Ec2SecurityGroup(pr) ==
    [type              |-> "SecurityGroup",
     vpc               |-> VpcRef(pr),
     securityGroupName |-> "websocket-api-ec2-sg-" \o EnvNameOf(pr),
     description       |-> "Security group for WebSocket API EC2 instance",
     allowAllOutbound  |-> TRUE,
     ingress           |-> Ec2IngressRules]

(***************************************************************************)
(* The user-data script (lines 167-271).  Comment lines and blank lines    *)
(* are no-ops and are left out; the two here-documents are kept as the     *)
(* files they write.                                                        *)
(***************************************************************************)
UnitFilePath == "/etc/systemd/system/websocketapi.service"

NginxSitePath == "/etc/nginx/sites-available/websocketapi"

UserDataLogPath == "/var/log/user-data.log"

\* A slip that restarts the service only after a failure outside production.
UnitFileRestartOnFailure(envName) ==
    [Description      |-> "WebSocket API .NET Application",
     After            |-> "network.target",
     Type             |-> "notify",
     WorkingDirectory |-> "/var/www/websocketapi",
     ExecStart        |-> "/usr/bin/dotnet /var/www/websocketapi/WebSocketApi.dll",
     Restart          |-> IF envName = "prod" THEN "always" ELSE "on-failure",
     RestartSec       |-> 10,
     KillSignal       |-> "SIGINT",
     SyslogIdentifier |-> "websocketapi",
     User             |-> "www-data",
     Environment      |->
        [ASPNETCORE_ENVIRONMENT |->
            IF envName = "prod" THEN "Production" ELSE "Development",
         ASPNETCORE_URLS |-> "http://0.0.0.0:5000"],
     WantedBy         |-> "multi-user.target"]

\* cat > /etc/systemd/system/websocketapi.service (lines 197-216)
UnitFile(envName) ==
    [Description      |-> "WebSocket API .NET Application",
     After            |-> "network.target",
     Type             |-> "notify",
     WorkingDirectory |-> "/var/www/websocketapi",
     ExecStart        |-> "/usr/bin/dotnet /var/www/websocketapi/WebSocketApi.dll",
     Restart          |-> "always",
     RestartSec       |-> 10,
     KillSignal       |-> "SIGINT",
     SyslogIdentifier |-> "websocketapi",
     User             |-> "www-data",
     Environment      |->
        [ASPNETCORE_ENVIRONMENT |->
            IF envName = "prod" THEN "Production" ELSE "Development",
         ASPNETCORE_URLS |-> "http://0.0.0.0:5000"],
     WantedBy         |-> "multi-user.target"]

\* An nginx time value as written in the configuration: a number and a unit
\* suffix ("" when none is written).
NginxTime(n, unit) == [n |-> n, unit |-> unit]

\* nginx reads a time without a suffix as seconds.
NginxSeconds(t) ==
    CASE t.unit = ""  -> t.n
      [] t.unit = "s" -> t.n
      [] t.unit = "m" -> t.n * 60
      [] t.unit = "h" -> t.n * 3600
      [] t.unit = "d" -> t.n * 86400

UpgradeHeaders ==
    [Upgrade             |-> "$http_upgrade",
     Connection          |-> "upgrade",
     Host                |-> "$host",
     X_Real_IP           |-> "$remote_addr",
     X_Forwarded_For     |-> "$proxy_add_x_forwarded_for",
     X_Forwarded_Proto   |-> "$scheme"]

LocationRoot ==
    [proxy_pass            |-> "http://websocketapi",
     proxy_http_version    |-> "1.1",
     proxy_set_header      |-> UpgradeHeaders,
     proxy_cache_bypass    |-> "$http_upgrade",
     proxy_read_timeout    |-> NginxTime(300, "s"),
     proxy_connect_timeout |-> NginxTime(75, "s")]

\* A slip that copies the default route's read timeout onto the /ws route.
LocationWsShortTimeout ==
    [proxy_pass            |-> "http://websocketapi/ws",
     proxy_http_version    |-> "1.1",
     proxy_set_header      |-> UpgradeHeaders,
     proxy_read_timeout    |-> NginxTime(300, "s")]

LocationWs ==
    [proxy_pass            |-> "http://websocketapi/ws",
     proxy_http_version    |-> "1.1",
     proxy_set_header      |-> UpgradeHeaders,
     proxy_read_timeout    |-> NginxTime(86400, "")]

LocationHealth ==
    [proxy_pass |-> "http://websocketapi/health",
     access_log |-> "off"]

\* cat > /etc/nginx/sites-available/websocketapi (lines 222-262)
NginxSite ==
    [upstream    |-> [name |-> "websocketapi", server |-> "127.0.0.1:5000"],
     listen      |-> "80 default_server",
     server_name |-> "_",
     locations   |-> [root |-> LocationRoot, ws |-> LocationWs, health |-> LocationHealth]]

\* The route each location block serves.
LocationPath ==
    [root |-> "/", ws |-> "/ws", health |-> "/health"]

\* A slip that leaves out `set -e`.
UserDataCommandsNoErrexit ==
    << "exec > >(tee /var/log/user-data.log)",
       "exec 2>&1",
       "echo Starting WebSocket API setup",
       "apt-get update -y",
       "apt-get upgrade -y",
       "apt-get install -y awscli unzip nginx curl",
       "wget https://dot.net/v1/dotnet-install.sh -O /tmp/dotnet-install.sh",
       "chmod +x /tmp/dotnet-install.sh",
       "/tmp/dotnet-install.sh --channel 8.0 --install-dir /usr/share/dotnet",
       "ln -sf /usr/share/dotnet/dotnet /usr/bin/dotnet",
       "dotnet --version",
       "mkdir -p /var/www/websocketapi",
       "chown -R www-data:www-data /var/www/websocketapi",
       "cat > /etc/systemd/system/websocketapi.service",
       "systemctl daemon-reload",
       "systemctl enable websocketapi",
       "cat > /etc/nginx/sites-available/websocketapi",
       "ln -sf /etc/nginx/sites-available/websocketapi /etc/nginx/sites-enabled/",
       "rm -f /etc/nginx/sites-enabled/default",
       "nginx -t",
       "systemctl restart nginx",
       "echo WebSocket API setup completed" >>

\* A slip that restarts nginx before its configuration is validated.
UserDataCommandsRestartFirst ==
    << "set -e",
       "exec > >(tee /var/log/user-data.log)",
       "exec 2>&1",
       "echo Starting WebSocket API setup",
       "apt-get update -y",
       "apt-get upgrade -y",
       "apt-get install -y awscli unzip nginx curl",
       "wget https://dot.net/v1/dotnet-install.sh -O /tmp/dotnet-install.sh",
       "chmod +x /tmp/dotnet-install.sh",
       "/tmp/dotnet-install.sh --channel 8.0 --install-dir /usr/share/dotnet",
       "ln -sf /usr/share/dotnet/dotnet /usr/bin/dotnet",
       "dotnet --version",
       "mkdir -p /var/www/websocketapi",
       "chown -R www-data:www-data /var/www/websocketapi",
       "cat > /etc/systemd/system/websocketapi.service",
       "systemctl daemon-reload",
       "systemctl enable websocketapi",
       "cat > /etc/nginx/sites-available/websocketapi",
       "ln -sf /etc/nginx/sites-available/websocketapi /etc/nginx/sites-enabled/",
       "rm -f /etc/nginx/sites-enabled/default",
       "systemctl restart nginx",
       "nginx -t",
       "echo WebSocket API setup completed" >>

\* userData.addCommands(...) (lines 168-271), the commands in order.
UserDataCommands ==
    << "set -e",
       "exec > >(tee /var/log/user-data.log)",
       "exec 2>&1",
       "echo Starting WebSocket API setup",
       "apt-get update -y",
       "apt-get upgrade -y",
       "apt-get install -y awscli unzip nginx curl",
       "wget https://dot.net/v1/dotnet-install.sh -O /tmp/dotnet-install.sh",
       "chmod +x /tmp/dotnet-install.sh",
       "/tmp/dotnet-install.sh --channel 8.0 --install-dir /usr/share/dotnet",
       "ln -sf /usr/share/dotnet/dotnet /usr/bin/dotnet",
       "dotnet --version",
       "mkdir -p /var/www/websocketapi",
       "chown -R www-data:www-data /var/www/websocketapi",
       "cat > /etc/systemd/system/websocketapi.service",
       "systemctl daemon-reload",
       "systemctl enable websocketapi",
       "cat > /etc/nginx/sites-available/websocketapi",
       "ln -sf /etc/nginx/sites-available/websocketapi /etc/nginx/sites-enabled/",
       "rm -f /etc/nginx/sites-enabled/default",
       "nginx -t",
       "systemctl restart nginx",
       "echo WebSocket API setup completed" >>

\* The content each here-document of the script writes.
UserDataHeredocs(envName) ==
    [unit |-> [path |-> UnitFilePath, content |-> UnitFile(envName)],
     site |-> [path |-> NginxSitePath, content |-> NginxSite]]

UserData(envName) ==
    [shebang  |-> "#!/bin/bash",
     commands |-> UserDataCommands,
     heredocs |-> UserDataHeredocs(envName)]

Instance(pr) ==
    [type           |-> "Instance",
     vpc            |-> VpcRef(pr),
     subnetType     |-> "PRIVATE_WITH_EGRESS",
     instanceType   |-> InstanceTypeOf(pr),
     machineImage   |->
        "/aws/service/canonical/ubuntu/server/22.04/stable/current/amd64/hvm/ebs-gp2/ami-id",
     securityGroup  |-> "EC2SecurityGroup",
     role           |-> "EC2Role",
     userData       |-> UserData(EnvNameOf(pr)),
     blockDevices   |-> << [deviceName |-> "/dev/sda1", sizeGiB |-> 20,
                            volumeType |-> "GP3", encrypted |-> TRUE] >>,
     tags           |-> [Name |-> "WebSocketApi",
                         Environment |-> EnvNameOf(pr),
                         ManagedBy |-> "CDK"]]

LoadBalancer(pr) ==
    [type             |-> "ApplicationLoadBalancer",
     vpc              |-> VpcRef(pr),
     internetFacing   |-> TRUE,
     loadBalancerName |-> "websocket-api-alb-" \o EnvNameOf(pr),
     securityGroup    |-> "ALBSecurityGroup",
     subnetType       |-> "PUBLIC",
     listeners        |-> {}]

\* A slip that admits a backend on its first successful probe.
HealthCheckAdmitOnFirst ==
    [enabled                 |-> TRUE,
     path                    |-> "/health",
     protocol                |-> "HTTP",
     interval                |-> 30,
     timeout                 |-> 5,
     healthyThresholdCount   |-> 1,
     unhealthyThresholdCount |-> 3,
     healthyHttpCodes        |-> "200"]

\* healthCheck (lines 329-338), durations in seconds
HealthCheck ==
    [enabled                 |-> TRUE,
     path                    |-> "/health",
     protocol                |-> "HTTP",
     interval                |-> 30,
     timeout                 |-> 5,
     healthyThresholdCount   |-> 2,
     unhealthyThresholdCount |-> 3,
     healthyHttpCodes        |-> "200"]

\* new elbv2.ApplicationTargetGroup(...) (lines 323-341); no attribute is set yet
TargetGroup(pr) ==
    [type                     |-> "ApplicationTargetGroup",
     vpc                      |-> VpcRef(pr),
     port                     |-> 80,
     protocol                 |-> "HTTP",
     targetGroupName          |-> "websocket-api-tg-" \o EnvNameOf(pr),
     targets                  |-> { [instance |-> "WebSocketApiInstance", port |-> 80] },
     healthCheck              |-> HealthCheck,
     deregistrationDelay      |-> 30,
     stickinessCookieDuration |-> 3600,
     attributes               |-> [stickiness_enabled |-> Undefined,
                                   stickiness_type    |-> Undefined]]

\* A slip that leaves stickiness switched off.
StickinessAttributesDisabled ==
    [stickiness_enabled |-> "false", stickiness_type |-> "lb_cookie"]

\* targetGroup.setAttribute(...) (lines 344-345)
StickinessAttributes ==
    [stickiness_enabled |-> "true", stickiness_type |-> "lb_cookie"]

HttpListener ==
    [id |-> "HttpListener", port |-> 80, protocol |-> "HTTP",
     defaultTargetGroups |-> <<"TargetGroup">>]

\* The attribute of a resource that is only known at deploy time.
Attr(id, name) == "${" \o id \o "." \o name \o "}"

Outputs(pr) ==
    [ALBDnsName |->
        [value |-> Attr("WebSocketALB", "DNSName"),
         exportName |-> "WebSocketApi-ALB-DNS-" \o EnvNameOf(pr)],
     WebSocketURL |->
        [value |-> "ws://" \o Attr("WebSocketALB", "DNSName") \o "/ws",
         exportName |-> "WebSocketApi-WS-URL-" \o EnvNameOf(pr)],
     HealthCheckURL |->
        [value |-> "http://" \o Attr("WebSocketALB", "DNSName") \o "/health",
         exportName |-> Undefined],
     DeploymentBucket |->
        [value |-> DeploymentBucket(pr).bucketName,
         exportName |-> "WebSocketApi-Bucket-" \o EnvNameOf(pr)],
     InstanceId |->
        [value |-> Attr("WebSocketApiInstance", "InstanceId"),
         exportName |-> Undefined],
     InstanceTag |->
        [value |-> "WebSocketApi",
         exportName |-> "WebSocketApi-InstanceTag-" \o EnvNameOf(pr)],
     VpcId |->
        [value |-> Attr(VpcRef(pr), "VpcId"),
         exportName |-> Undefined]]

(***************************************************************************)
(* The composition as a state machine: one evaluation of bin/app.ts runs   *)
(* the constructor section by section and ends in app.synth().             *)
(***************************************************************************)
EmptyGraph == [id \in {} |-> {}]

Put(g, id, def) == (id :> def) @@ g

Has(g, id) == id \in DOMAIN g

CompInit ==
    /\ customProps \in CustomProps
    /\ proc \in Procs
    /\ evalNo = 1
    /\ pc = "super"
    /\ stack = EmptyGraph
    /\ synth = <<>>

\* Declare resource `id` and move on to section `next`.
Declare(at, id, def, next) ==
    /\ pc = at
    /\ stack' = Put(stack, id, def)
    /\ pc' = next
    /\ UNCHANGED <<customProps, proc, evalNo, synth, exceptComp>>

\* super(scope, id, props) (line 40)
Super == Declare("super", "Stack", StackDefinition(props), "vpc")

\* ec2.Vpc.fromLookup (lines 53-57); a lookup that does not resolve is fatal
LookupVpc ==
    /\ pc = "vpc"
    /\ UseExistingVpc(props)
    /\ \E found \in BOOLEAN :
          IF found
          THEN /\ stack' = Put(stack, "ExistingVPC", ExistingVpc(props))
               /\ pc' = "bucket"
          ELSE /\ stack' = stack
               /\ pc' = "failed"
    /\ UNCHANGED <<customProps, proc, evalNo, synth, exceptComp>>

\* new ec2.Vpc (lines 58-77)
CreateVpc ==
    /\ ~UseExistingVpc(props)
    /\ Declare("vpc", "WebSocketVPC", NewVpc(props), "bucket")

\* new s3.Bucket (lines 82-95)
CreateBucket == Declare("bucket", "DeploymentBucket", DeploymentBucket(props), "role")

\* new iam.Role (lines 100-108)
CreateRole == Declare("role", "EC2Role", EC2Role(props), "grantRead")

\* deploymentBucket.grantRead(ec2Role) (line 111)
GrantBucketRead ==
    /\ pc = "grantRead"
    /\ stack' = [stack EXCEPT !["EC2Role"].grants = @ \cup {GrantRead("DeploymentBucket")}]
    /\ pc' = "albSecurityGroup"
    /\ UNCHANGED <<customProps, proc, evalNo, synth, exceptComp>>

\* ALB security group and its two ingress rules (lines 118-135)
CreateAlbSecurityGroup ==
    Declare("albSecurityGroup", "ALBSecurityGroup", AlbSecurityGroup(props),
            "ec2SecurityGroup")

\* EC2 security group and its two ingress rules (lines 138-155)
CreateEc2SecurityGroup ==
    Declare("ec2SecurityGroup", "EC2SecurityGroup", Ec2SecurityGroup(props), "instance")

\* user data, instance and its tags (lines 167-305)
CreateInstance == Declare("instance", "WebSocketApiInstance", Instance(props), "alb")

\* new elbv2.ApplicationLoadBalancer (lines 310-318)
CreateLoadBalancer == Declare("alb", "WebSocketALB", LoadBalancer(props), "targetGroup")

\* new elbv2.ApplicationTargetGroup (lines 323-341)
CreateTargetGroup == Declare("targetGroup", "TargetGroup", TargetGroup(props), "stickiness")

\* targetGroup.setAttribute, twice (lines 344-345)
SetStickiness ==
    /\ pc = "stickiness"
    /\ stack' = [stack EXCEPT !["TargetGroup"].attributes = StickinessAttributes]
    /\ pc' = "listener"
    /\ UNCHANGED <<customProps, proc, evalNo, synth, exceptComp>>

\* alb.addListener (lines 350-354)
AddListener ==
    /\ pc = "listener"
    /\ stack' = [stack EXCEPT !["WebSocketALB"].listeners = @ \cup {HttpListener}]
    /\ pc' = "outputs"
    /\ UNCHANGED <<customProps, proc, evalNo, synth, exceptComp>>

\* the CfnOutputs (lines 359-396)
PublishOutputs ==
    Declare("outputs", "Outputs", [type |-> "Outputs", values |-> Outputs(props)], "synth")

\* app.synth() (bin/app.ts line 37)
Synth ==
    /\ pc = "synth"
    /\ synth' = Append(synth, [evalNo |-> evalNo, proc |-> proc, stack |-> stack])
    /\ pc' = "done"
    /\ UNCHANGED <<customProps, proc, evalNo, stack, exceptComp>>

\* The app is run again: a new process, with its own context and environment.
NextEvaluation ==
    /\ pc \in {"done", "failed"}
    /\ evalNo + 1 \in Evaluations
    /\ evalNo' = evalNo + 1
    /\ proc' \in Procs
    /\ stack' = EmptyGraph
    /\ pc' = "super"
    /\ UNCHANGED <<customProps, synth, exceptComp>>

CompNext ==
    \/ Super
    \/ LookupVpc
    \/ CreateVpc
    \/ CreateBucket
    \/ CreateRole
    \/ GrantBucketRead
    \/ CreateAlbSecurityGroup
    \/ CreateEc2SecurityGroup
    \/ CreateInstance
    \/ CreateLoadBalancer
    \/ CreateTargetGroup
    \/ SetStickiness
    \/ AddListener
    \/ PublishOutputs
    \/ Synth
    \/ NextEvaluation

(***************************************************************************)
(* The bootstrap script run on the host at first boot.  bash runs the      *)
(* commands in order; a command ends with exit status 0 or not; under      *)
(* `set -e` the first failing command ends the script.  After the two      *)
(* `exec` lines stdout and stderr are a pipe read by a separate tee        *)
(* process, which copies what it reads to /var/log/user-data.log.          *)
(***************************************************************************)
BootEnvironments == {"dev", "prod", "staging"}

\* How much output the pipe to tee holds before the writer blocks.
PipeCap == 2

Script == UserData(bootEnv)

\* Shell builtins of the script that write nothing and do not fail.
Builtins == {"set -e", "exec > >(tee /var/log/user-data.log)", "exec 2>&1"}

ExitStatuses(cmd) ==
    IF cmd \in Builtins \/ SubSeq(cmd, 1, 5) = "echo " THEN {0} ELSE {0, 1}

FreshHost ==
    [files          |-> EmptyGraph,
     sitesEnabled   |-> {},
     daemonReloaded |-> FALSE,
     enabled        |-> {},
     active         |-> {},
     nginxTested    |-> FALSE,
     nginxRestarted |-> FALSE]

\* What a command that succeeds changes on the host.
Effect(cmd, h) ==
    CASE cmd = "apt-get install -y awscli unzip nginx curl" ->
            [h EXCEPT !.sitesEnabled = @ \cup {"default"},
                      !.enabled = @ \cup {"nginx"},
                      !.active = @ \cup {"nginx"}]
      [] cmd = "cat > /etc/systemd/system/websocketapi.service" ->
            [h EXCEPT !.files = Put(@, Script.heredocs.unit.path,
                                       Script.heredocs.unit.content)]
      [] cmd = "systemctl daemon-reload" ->
            [h EXCEPT !.daemonReloaded = TRUE]
      [] cmd = "systemctl enable websocketapi" ->
            [h EXCEPT !.enabled = @ \cup {"websocketapi"}]
      [] cmd = "cat > /etc/nginx/sites-available/websocketapi" ->
            [h EXCEPT !.files = Put(@, Script.heredocs.site.path,
                                       Script.heredocs.site.content)]
      [] cmd = "ln -sf /etc/nginx/sites-available/websocketapi /etc/nginx/sites-enabled/" ->
            [h EXCEPT !.sitesEnabled = @ \cup {"websocketapi"}]
      [] cmd = "rm -f /etc/nginx/sites-enabled/default" ->
            [h EXCEPT !.sitesEnabled = @ \ {"default"}]
      [] cmd = "nginx -t" ->
            [h EXCEPT !.nginxTested = TRUE]
      [] cmd = "systemctl restart nginx" ->
            [h EXCEPT !.nginxRestarted = TRUE, !.active = @ \cup {"nginx"}]
      [] OTHER -> h

\* What a command writes: a line on stdout when it succeeds, on stderr when it fails.
OutputOf(cmd, rc) == [cmd |-> cmd, rc |-> rc]

BootInit ==
    /\ bootEnv \in BootEnvironments
    /\ ip = 1
    /\ status = "running"
    /\ errexit = FALSE
    /\ fd1 = "console"
    /\ fd2 = "console"
    /\ pipe = <<>>
    /\ log = <<>>
    /\ ran = <<>>
    /\ host = FreshHost

\* Where the script goes after a command that ended with `rc`.
Advance(rc) ==
    IF rc # 0 /\ errexit
    THEN /\ status' = "aborted"
         /\ ip' = ip
    ELSE /\ ip' = ip + 1
         /\ status' = IF ip = Len(Script.commands) THEN "done" ELSE "running"

\* set -e, exec > >(tee ...), exec 2>&1
RunBuiltin ==
    /\ status = "running"
    /\ Script.commands[ip] \in Builtins
    /\ LET cmd == Script.commands[ip] IN
       /\ errexit' = (errexit \/ cmd = "set -e")
       /\ fd1' = IF cmd = "exec > >(tee /var/log/user-data.log)" THEN "pipe" ELSE fd1
       /\ fd2' = IF cmd = "exec 2>&1" THEN fd1 ELSE fd2
       /\ log' = IF cmd = "exec > >(tee /var/log/user-data.log)" THEN <<>> ELSE log
       /\ ran' = Append(ran, [cmd |-> cmd, rc |-> 0])
    /\ Advance(0)
    /\ UNCHANGED <<bootEnv, pipe, host, exceptBoot>>

\* Any other command: it runs, writes its output and ends with some exit status.
RunCommand ==
    /\ status = "running"
    /\ Script.commands[ip] \notin Builtins
    /\ LET cmd == Script.commands[ip] IN
       \E rc \in ExitStatuses(cmd) :
          LET fd == IF rc = 0 THEN fd1 ELSE fd2 IN
          /\ fd = "pipe" => Len(pipe) < PipeCap
          /\ pipe' = IF fd = "pipe" THEN Append(pipe, OutputOf(cmd, rc)) ELSE pipe
          /\ host' = IF rc = 0 THEN Effect(cmd, host) ELSE host
          /\ ran' = Append(ran, [cmd |-> cmd, rc |-> rc])
          /\ Advance(rc)
    /\ UNCHANGED <<bootEnv, errexit, fd1, fd2, log, exceptBoot>>

\* The tee process copies the next piece of output to the log file.
Tee ==
    /\ pipe # <<>>
    /\ log' = Append(log, Head(pipe))
    /\ pipe' = Tail(pipe)
    /\ UNCHANGED <<bootEnv, ip, status, errexit, fd1, fd2, ran, host, exceptBoot>>

BootNext ==
    \/ RunBuiltin
    \/ RunCommand
    \/ Tee

(***************************************************************************)
(* Specifications                                                           *)
(***************************************************************************)
\* The part of the state a specification does not use stays as it starts.
BootIdle ==
    /\ bootEnv = "dev"
    /\ ip = 1
    /\ status = "running"
    /\ errexit = FALSE
    /\ fd1 = "console"
    /\ fd2 = "console"
    /\ pipe = <<>>
    /\ log = <<>>
    /\ ran = <<>>
    /\ host = FreshHost

CompIdle ==
    /\ customProps = [createVpc |-> Undefined, vpcId |-> Undefined,
                      instanceType |-> Undefined]
    /\ proc = [environment |-> Undefined, CDK_DEFAULT_ACCOUNT |-> Undefined,
               CDK_DEFAULT_REGION |-> Undefined]
    /\ evalNo = 1
    /\ pc = "super"
    /\ stack = EmptyGraph
    /\ synth = <<>>

(***************************************************************************)
(* The health checker the target group's healthCheck block configures      *)
(* (lines 329-338), followed for one registered backend.  A probe is sent  *)
(* every `interval` seconds; it succeeds when the backend answers with     *)
(* healthyHttpCodes before `timeout` seconds have passed and fails         *)
(* otherwise.  healthyThresholdCount consecutive successes make the        *)
(* backend healthy, unhealthyThresholdCount consecutive failures make it   *)
(* unhealthy; only a healthy backend is in rotation.                       *)
(***************************************************************************)
\* How many probes of the backend are followed.
MaxProbes == 5

\* The target group as composed: constructed, then the attributes set.
ComposedTargetGroup(pr) ==
    [TargetGroup(pr) EXCEPT !.attributes = StickinessAttributes]

Policy == ComposedTargetGroup(props).healthCheck

\* What a probe can come back with, and after how long.
ProbeResults ==
    { [code |-> c, delay |-> d] : c \in {"200", "500"}, d \in {0, Policy.timeout - 1} }
    \cup { [code |-> "timeout", delay |-> Policy.timeout] }

HealthInit ==
    /\ hcClock = 0
    /\ hcSent = -1
    /\ hcState = "initial"
    /\ hcSucc = 0
    /\ hcFail = 0
    /\ hcHistory = <<>>

SendProbe ==
    /\ Policy.enabled
    /\ hcSent = -1
    /\ Len(hcHistory) < MaxProbes
    /\ hcSent' = Len(hcHistory) * Policy.interval
    /\ hcClock' = Len(hcHistory) * Policy.interval
    /\ UNCHANGED <<hcState, hcSucc, hcFail, hcHistory, exceptHealth>>

ProbeSucceeds ==
    /\ hcSent >= 0
    /\ \E r \in ProbeResults :
          /\ r.code = Policy.healthyHttpCodes
          /\ hcClock' = hcSent + r.delay
          /\ hcSucc' = hcSucc + 1
          /\ hcFail' = 0
          /\ hcState' = IF hcSucc + 1 >= Policy.healthyThresholdCount
                        THEN "healthy" ELSE hcState
          /\ hcHistory' = Append(hcHistory,
                [sent |-> hcSent, done |-> hcSent + r.delay, ok |-> TRUE,
                 state |-> hcState'])
    /\ hcSent' = -1
    /\ UNCHANGED exceptHealth

ProbeFails ==
    /\ hcSent >= 0
    /\ \E r \in ProbeResults :
          /\ r.code # Policy.healthyHttpCodes
          /\ hcClock' = hcSent + r.delay
          /\ hcFail' = hcFail + 1
          /\ hcSucc' = 0
          /\ hcState' = IF hcFail + 1 >= Policy.unhealthyThresholdCount
                        THEN "unhealthy" ELSE hcState
          /\ hcHistory' = Append(hcHistory,
                [sent |-> hcSent, done |-> hcSent + r.delay, ok |-> FALSE,
                 state |-> hcState'])
    /\ hcSent' = -1
    /\ UNCHANGED exceptHealth

HealthNext ==
    \/ SendProbe
    \/ ProbeSucceeds
    \/ ProbeFails

(***************************************************************************)
(* The routing the target group's stickiness settings configure            *)
(* (lines 340-345): with stickiness enabled and type lb_cookie, the load   *)
(* balancer hands a client a cookie naming the backend it was routed to,   *)
(* valid for stickinessCookieDuration seconds and renewed by every         *)
(* connection; a connection that presents a valid cookie whose backend is  *)
(* in rotation goes to that backend, any other to any backend in rotation. *)
(***************************************************************************)
\* How many backends are registered with the target group.
NumBackends == 2

\* How long the routing is followed, in half hours.
MaxHalfHours == 3

Backends == 1..NumBackends

Clients == {"alice"}

\* How far the clock moves between events.
TimeSteps == {1800, 3600}

Stickiness ==
    [enabled  |-> ComposedTargetGroup(props).attributes.stickiness_enabled = "true",
     type     |-> ComposedTargetGroup(props).attributes.stickiness_type,
     duration |-> ComposedTargetGroup(props).stickinessCookieDuration]

NoCookie == [target |-> 0, expires |-> 0]

NoConnection == [target |-> 0, at |-> -1]

\* The latest connection is kept with the rotation it was routed in.
NoLatest == [target |-> 0, at |-> -1, rotation |-> {}]

StickyInit ==
    /\ stClock = 0
    /\ stRotation = Backends
    /\ stCookie = [c \in Clients |-> NoCookie]
    /\ stLast = [c \in Clients |-> NoLatest]
    /\ stPrev = [c \in Clients |-> NoConnection]

\* The cookie of client c pins it to a backend now.
Pinned(c) ==
    /\ Stickiness.enabled
    /\ Stickiness.type = "lb_cookie"
    /\ stCookie[c] # NoCookie
    /\ stClock < stCookie[c].expires
    /\ stCookie[c].target \in stRotation

Connect(c) ==
    /\ stRotation # {}
    /\ \E b \in stRotation :
          /\ Pinned(c) => b = stCookie[c].target
          /\ stCookie' = [stCookie EXCEPT ![c] =
                IF Stickiness.enabled
                THEN [target |-> b, expires |-> stClock + Stickiness.duration]
                ELSE NoCookie]
          /\ stLast' = [stLast EXCEPT ![c] =
                [target |-> b, at |-> stClock, rotation |-> stRotation]]
    /\ stPrev' = [stPrev EXCEPT ![c] = [target |-> stLast[c].target, at |-> stLast[c].at]]
    /\ UNCHANGED <<stClock, stRotation, exceptSticky>>

\* The health checker takes a backend out of rotation.
Evict(b) ==
    /\ b \in stRotation
    /\ stRotation' = stRotation \ {b}
    /\ UNCHANGED <<stClock, stCookie, stLast, stPrev, exceptSticky>>

\* The health checker admits a backend to rotation.
Admit(b) ==
    /\ b \notin stRotation
    /\ stRotation' = stRotation \cup {b}
    /\ UNCHANGED <<stClock, stCookie, stLast, stPrev, exceptSticky>>

Tick(d) ==
    /\ stClock + d <= MaxHalfHours * 1800
    /\ stClock' = stClock + d
    /\ UNCHANGED <<stRotation, stCookie, stLast, stPrev, exceptSticky>>

StickyNext ==
    \/ \E c \in Clients : Connect(c)
    \/ \E b \in Backends : Evict(b)
    \/ \E b \in Backends : Admit(b)
    \/ \E d \in TimeSteps : Tick(d)

HealthIdle ==
    /\ hcClock = 0
    /\ hcSent = -1
    /\ hcState = "initial"
    /\ hcSucc = 0
    /\ hcFail = 0
    /\ hcHistory = <<>>

StickyIdle ==
    /\ stClock = 0
    /\ stRotation = {}
    /\ stCookie = [c \in Clients |-> NoCookie]
    /\ stLast = [c \in Clients |-> NoLatest]
    /\ stPrev = [c \in Clients |-> NoConnection]

Init == CompInit /\ BootIdle /\ HealthIdle /\ StickyIdle

Next == CompNext

\* The composition: bin/app.ts evaluated up to twice.
Spec == Init /\ [][Next]_vars

BootSpecInit == CompIdle /\ BootInit /\ HealthIdle /\ StickyIdle

\* One run of the bootstrap script on a fresh host.
BootSpec == BootSpecInit /\ [][BootNext]_vars

\* The stacks whose target group is followed: one per environment identifier
\* (the target group takes nothing else from the inputs).
TrafficCompInit ==
    /\ customProps = [createVpc |-> Undefined, vpcId |-> Undefined,
                      instanceType |-> Undefined]
    /\ proc \in {p \in Procs : /\ p.CDK_DEFAULT_ACCOUNT = Undefined
                                /\ p.CDK_DEFAULT_REGION = Undefined}
    /\ evalNo = 1
    /\ pc = "super"
    /\ stack = EmptyGraph
    /\ synth = <<>>

HealthSpecInit == TrafficCompInit /\ BootIdle /\ HealthInit /\ StickyIdle

\* The health checker probing the backend of a composed stack.
HealthSpec == HealthSpecInit /\ [][HealthNext]_vars

StickySpecInit == TrafficCompInit /\ BootIdle /\ HealthIdle /\ StickyInit

\* The load balancer of a composed stack routing client connections.
StickySpec == StickySpecInit /\ [][StickyNext]_vars

(***************************************************************************)
(* Properties of the bootstrap script (BootSpec)                           *)
(***************************************************************************)
\* Command cmd has run and ended with exit status rc.
Ran(cmd, rc) == \E i \in 1..Len(ran) : ran[i] = [cmd |-> cmd, rc |-> rc]

Attempted(cmd) == \E i \in 1..Len(ran) : ran[i].cmd = cmd

WritesOutput(r) == r.cmd \notin Builtins

\* Everything the commands run so far have written, in order.
OutputSoFar == SelectSeq(ran, WritesOutput)

\* The commands of the script that follow `dotnet --version`.
AfterDotnetVersion ==
    { "mkdir -p /var/www/websocketapi",
      "chown -R www-data:www-data /var/www/websocketapi",
      "cat > /etc/systemd/system/websocketapi.service",
      "systemctl daemon-reload",
      "systemctl enable websocketapi",
      "cat > /etc/nginx/sites-available/websocketapi",
      "ln -sf /etc/nginx/sites-available/websocketapi /etc/nginx/sites-enabled/",
      "rm -f /etc/nginx/sites-enabled/default",
      "nginx -t",
      "systemctl restart nginx",
      "echo WebSocket API setup completed" }

\* C1: when `dotnet --version` returns non-zero the script ends at that step:
\* it is the last command run, no later command has run, the unit file is not
\* written, systemd is neither reloaded nor told to enable websocketapi, nginx
\* is neither configured nor restarted; and the output up to and including
\* the failure is in /var/log/user-data.log or on its way there through tee,
\* all of it in the log once tee has read the pipe empty.
C1_DotnetFailureStopsBootstrap ==
    Ran("dotnet --version", 1) =>
        /\ status = "aborted"
        /\ ran[Len(ran)] = [cmd |-> "dotnet --version", rc |-> 1]
        /\ \A cmd \in AfterDotnetVersion : ~Attempted(cmd)
        /\ UnitFilePath \notin DOMAIN host.files
        /\ ~host.daemonReloaded
        /\ "websocketapi" \notin host.enabled
        /\ NginxSitePath \notin DOMAIN host.files
        /\ "websocketapi" \notin host.sitesEnabled
        /\ ~host.nginxRestarted
        /\ log \o pipe = OutputSoFar
        /\ OutputSoFar[Len(OutputSoFar)] = [cmd |-> "dotnet --version", rc |-> 1]
        /\ (pipe = <<>> => log = OutputSoFar)

\* The version check has failed and tee has written all output to the log.
C1_Witness ==
    /\ Ran("dotnet --version", 1)
    /\ pipe = <<>>
    /\ Len(log) > 1
    /\ log[Len(log)] = [cmd |-> "dotnet --version", rc |-> 1]

\* nginx is restarted only after `nginx -t` succeeded in this run.
RestartOnlyAfterValidation ==
    \A i \in 1..Len(ran) :
        ran[i].cmd = "systemctl restart nginx" =>
            \E j \in 1..(i - 1) : ran[j] = [cmd |-> "nginx -t", rc |-> 0]

\* A failed `nginx -t` ends the script: no restart, no completion message.
ValidationFailureAborts ==
    Ran("nginx -t", 1) =>
        /\ status = "aborted"
        /\ ~Attempted("systemctl restart nginx")
        /\ ~Attempted("echo WebSocket API setup completed")

\* C8 as stated: nginx is restarted only after `nginx -t` passed in the same
\* run, a failed validation aborts before the restart and the completion
\* message, and a run that reaches completion has both started and enabled
\* the unit websocketapi.
C8_CompletionStartsAndEnablesUnit ==
    /\ RestartOnlyAfterValidation
    /\ ValidationFailureAborts
    /\ status = "done" =>
          /\ "websocketapi" \in host.enabled
          /\ "websocketapi" \in host.active

\* C8 as amended: nginx is restarted only after `nginx -t` passed in the same
\* run, a failed validation aborts before the restart and the completion
\* message, and a run that reaches completion has enabled the unit
\* websocketapi; the script does not start it.
C8_ValidatedRestartAndUnitEnabled ==
    /\ RestartOnlyAfterValidation
    /\ ValidationFailureAborts
    /\ status = "done" =>
          /\ Ran("echo WebSocket API setup completed", 0)
          /\ "websocketapi" \in host.enabled
          /\ "websocketapi" \notin host.active

\* A run has reached completion, past validation and restart of nginx.
C8_Witness ==
    /\ status = "done"
    /\ Ran("nginx -t", 0)
    /\ host.nginxRestarted

(***************************************************************************)
(* Properties of the health checker (HealthSpec)                           *)
(***************************************************************************)
\* The probes i-2, i-1 and i all failed.
ThreeFailuresEndingAt(i) ==
    /\ i >= 3
    /\ ~hcHistory[i - 2].ok
    /\ ~hcHistory[i - 1].ok
    /\ ~hcHistory[i].ok

\* The policy as configured: /health every 30 s, timeout 5 s, thresholds 2 and 3.
ConfiguredPolicy ==
    /\ Policy.enabled
    /\ Policy.path = "/health"
    /\ Policy.interval = 30
    /\ Policy.timeout = 5
    /\ Policy.healthyThresholdCount = 2
    /\ Policy.unhealthyThresholdCount = 3
    /\ Policy.timeout < Policy.interval

\* A backend that failed three consecutive probes is out of rotation when the
\* third result is in, at most 3*30+5 seconds after the first was sent.
EvictedInTime ==
    \A i \in 1..Len(hcHistory) :
        ThreeFailuresEndingAt(i) =>
            /\ hcHistory[i].state # "healthy"
            /\ hcHistory[i].done - hcHistory[i - 2].sent <= 3 * 30 + 5

\* A backend enters rotation only on the second of two consecutive successes.
AdmittedAfterTwoSuccesses ==
    (hcState # "healthy" /\ hcState' = "healthy") =>
        /\ Len(hcHistory') >= 2
        /\ hcHistory'[Len(hcHistory')].ok
        /\ hcHistory'[Len(hcHistory') - 1].ok

\* C2: under the configured policy a backend is admitted to rotation only
\* after 2 consecutive successful probes, a backend that fails 3 consecutive
\* probes is out of rotation within 95 s of the first of them, and the
\* per-probe timeout is less than the probe interval.
C2_HealthCheckPolicy ==
    /\ [](ConfiguredPolicy /\ EvictedInTime)
    /\ [][AdmittedAfterTwoSuccesses]_vars

\* A backend was admitted and then evicted by three failed probes.
C2_Witness ==
    /\ Len(hcHistory) = 5
    /\ hcHistory[2].state = "healthy"
    /\ ThreeFailuresEndingAt(5)
    /\ hcState = "unhealthy"

(***************************************************************************)
(* Properties of the routing (StickySpec)                                  *)
(***************************************************************************)
\* Client c has connected twice, the second time within the affinity window
\* of the first and with the first connection's backend still in rotation.
TwoConnectionsInWindow(c) ==
    /\ stPrev[c] # NoConnection
    /\ stLast[c].at - stPrev[c].at < 3600
    /\ stPrev[c].target \in stLast[c].rotation

Graphs == Append(synth, [evalNo |-> evalNo, proc |-> proc, stack |-> stack])

NoOpenIngressToInstance(g, p) ==
    Has(g, "WebSocketApiInstance") =>
        LET sg == g[g["WebSocketApiInstance"].securityGroup] IN
        /\ sg.ingress # {}
        /\ \A r \in sg.ingress :
              /\ r.peer # [kind |-> "cidr", id |-> "0.0.0.0/0"]
              /\ r.peer.kind = "securityGroup"
              /\ r.peer.id = "ALBSecurityGroup"
        /\ Has(g, "WebSocketALB") => g["WebSocketALB"].securityGroup = "ALBSecurityGroup"

\* C4: for every environment and every combination of props, no ingress rule
\* of the instance's security group has any address (0.0.0.0/0) as its source;
\* the source of each is the load balancer's security group.
C4_NoIngressFromAnyAddress ==
    \A i \in 1..Len(Graphs) : NoOpenIngressToInstance(Graphs[i].stack, Graphs[i].proc)

\* A stack with an existing VPC is synthesised, its instance behind the group.
C4_Witness ==
    /\ pc = "done"
    /\ Has(stack, "ExistingVPC")
    /\ Cardinality(stack["EC2SecurityGroup"].ingress) = 2

ExactlyTwoGrants(g, p) ==
    Has(g, "WebSocketApiInstance") =>
        LET role == g[g["WebSocketApiInstance"].role] IN
        /\ role.managedPolicies = {"AmazonSSMManagedInstanceCore"}
        /\ role.grants = {[access |-> "read", resource |-> "DeploymentBucket"]}

\* C5: the instance's role carries exactly two grants, remote-session access
\* (AmazonSSMManagedInstanceCore) and read access to the deployment bucket,
\* and nothing else.
C5_RoleHasExactlyTwoGrants ==
    \A i \in 1..Len(Graphs) : ExactlyTwoGrants(Graphs[i].stack, Graphs[i].proc)

EnvironmentOf(p) == IF p.environment \in {Undefined, ""} THEN "dev" ELSE p.environment

\* The region an evaluation runs with.
RegionOf(p) ==
    IF p.CDK_DEFAULT_REGION \in {Undefined, ""} THEN "us-east-1" ELSE p.CDK_DEFAULT_REGION

VpcDecided(g) == Has(g, "DeploymentBucket")

VpcIdGivenMeansLookup(g, p) ==
    VpcDecided(g) =>
        /\ customProps.vpcId \notin {Undefined, ""} =>
              /\ Has(g, "ExistingVPC")
              /\ ~Has(g, "WebSocketVPC")
        /\ Has(g, "WebSocketVPC") => customProps.vpcId \in {Undefined, ""}

\* C7 as stated: when a vpcId is given in the props the network is resolved by
\* its identifier and no new network is declared; a new network is built only
\* when no vpcId is given.
C7_VpcIdGivenMeansNoNewNetwork ==
    \A i \in 1..Len(Graphs) : VpcIdGivenMeansLookup(Graphs[i].stack, Graphs[i].proc)

LookupIffFlagAndId(g, p) ==
    LET existing == customProps.createVpc = "false"
                    /\ customProps.vpcId \notin {Undefined, ""}
    IN  /\ ~(Has(g, "ExistingVPC") /\ Has(g, "WebSocketVPC"))
        /\ Has(g, "ExistingVPC") =>
              /\ existing
              /\ g["ExistingVPC"] = [type |-> "Vpc.fromLookup", vpcId |-> customProps.vpcId]
        /\ Has(g, "WebSocketVPC") => ~existing
        /\ VpcDecided(g) =>
              IF existing THEN Has(g, "ExistingVPC") ELSE Has(g, "WebSocketVPC")

\* C7 as amended: when createVpc is false and a non-empty vpcId is given, the
\* network is resolved by that identifier and no new network is declared (a
\* lookup that fails ends the run with no network declared); in every other
\* case, a vpcId given without createVpc: false included, a new network is
\* built.
C7_LookupOnlyWhenCreateVpcFalse ==
    /\ \A i \in 1..Len(Graphs) : LookupIffFlagAndId(Graphs[i].stack, Graphs[i].proc)
    /\ pc = "failed" =>
          /\ customProps.createVpc = "false"
          /\ ~Has(stack, "ExistingVPC")
          /\ ~Has(stack, "WebSocketVPC")

\* A stack given createVpc: false and a vpcId is synthesised on the looked-up network.
C7_Witness ==
    /\ pc = "done"
    /\ customProps.vpcId = "vpc-0abc"
    /\ Has(stack, "ExistingVPC")
    /\ ~Has(stack, "WebSocketVPC")

\* The nginx site the instance's user data writes.
SiteOf(g) == g["WebSocketApiInstance"].userData.heredocs.site.content

\* The systemd unit the instance's user data writes.
UnitOf(g) == g["WebSocketApiInstance"].userData.heredocs.unit.content

WsTimeoutIsOneDay(g, p) ==
    Has(g, "WebSocketApiInstance") =>
        /\ SiteOf(g).locations.ws.proxy_pass = "http://websocketapi/ws"
        /\ NginxSeconds(SiteOf(g).locations.ws.proxy_read_timeout) = 86400

\* C9: for every environment and every combination of props, the /ws route of
\* the generated nginx configuration has a read timeout of exactly 86400 s.
C9_WsReadTimeout ==
    \A i \in 1..Len(Graphs) : WsTimeoutIsOneDay(Graphs[i].stack, Graphs[i].proc)

\* Stacks of two different environments are synthesised.
C9_Witness ==
    /\ Len(synth) = 2
    /\ EnvironmentOf(synth[1].proc) = "prod"
    /\ EnvironmentOf(synth[2].proc) = "dev"
    /\ NginxSeconds(SiteOf(synth[1].stack).locations.ws.proxy_read_timeout) = 86400

\* The unit with the execution-mode variable blanked out.
WithoutMode(unit) == [unit EXCEPT !.Environment.ASPNETCORE_ENVIRONMENT = "-"]

UnitPolicy(g, p) ==
    Has(g, "WebSocketApiInstance") =>
        /\ UnitOf(g).Restart = "always"
        /\ UnitOf(g).RestartSec = 10
        /\ UnitOf(g).Environment.ASPNETCORE_URLS = "http://0.0.0.0:5000"
        /\ UnitOf(g).Environment.ASPNETCORE_ENVIRONMENT =
              IF EnvironmentOf(p) = "prod" THEN "Production" ELSE "Development"
        /\ \A i \in 1..Len(synth) :
              WithoutMode(UnitOf(g)) = WithoutMode(UnitOf(synth[i].stack))

\* C10: for every environment the generated unit restarts on any exit
\* (Restart=always) after a fixed delay (RestartSec=10); only its
\* ASPNETCORE_ENVIRONMENT varies with the environment (Production for prod,
\* Development otherwise) and the listen address stays http://0.0.0.0:5000.
C10_UnitRestartPolicy ==
    \A i \in 1..Len(Graphs) : UnitPolicy(Graphs[i].stack, Graphs[i].proc)

\* The units of a prod stack and of a staging stack are both generated.
C10_Witness ==
    /\ Len(synth) = 2
    /\ EnvironmentOf(synth[1].proc) = "prod"
    /\ EnvironmentOf(synth[2].proc) = "staging"
    /\ UnitOf(synth[1].stack).Environment.ASPNETCORE_ENVIRONMENT = "Production"
    /\ UnitOf(synth[2].stack).Environment.ASPNETCORE_ENVIRONMENT = "Development"

\* Security group sg admits TCP traffic to `port` from any address.
OpenToAnyAddress(sg, port) ==
    \E r \in sg.ingress :
        /\ r.peer = [kind |-> "cidr", id |-> "0.0.0.0/0"]
        /\ r.protocol = "tcp"
        /\ r.port = port

PublicEntryPorts(g, p) ==
    Has(g, "WebSocketALB") =>
        LET sg == g[g["WebSocketALB"].securityGroup] IN
        /\ OpenToAnyAddress(sg, 80)
        /\ OpenToAnyAddress(sg, 443)

\* C11: for every environment and every combination of props, the load
\* balancer's security group has an ingress rule for TCP port 80 from any
\* address and an ingress rule for TCP port 443 from any address.
C11_PublicEntryPorts ==
    \A i \in 1..Len(Graphs) : PublicEntryPorts(Graphs[i].stack, Graphs[i].proc)

\* A prod stack on an existing VPC is synthesised with its load balancer.
C11_Witness ==
    /\ pc = "done"
    /\ EnvironmentOf(proc) = "prod"
    /\ Has(stack, "ExistingVPC")
    /\ stack["WebSocketALB"].securityGroup = "ALBSecurityGroup"
    /\ Cardinality(stack["ALBSecurityGroup"].ingress) = 2

====
